---- MODULE Spec2Model ----
(***************************************************************************)
(* A model of function/analysis_class.py: the Analysis session object, its  *)
(* acquisition/cleaning step (download_save_data) and its query methods.    *)
(* The plotting backend, the HTTP client and the ARIMA routine are external *)
(* collaborators: a rendering call is recorded as "rendered", the HTTP      *)
(* client answers with one of three outcomes, the forecast always returns.  *)
(* The primary table keeps the columns Entity, Year and the three output    *)
(* quantities; the remaining numeric columns are not modelled.              *)
(***************************************************************************)
EXTENDS Integers, Sequences, FiniteSets, TLC

VARIABLES
    dataframe,   \* self.dataframe: None or the primary table
    geodata,     \* self.geodata: None or the geographic table
    merge_dict,  \* self.merge_dict: TRUE once choropleth has filled it
    cache,       \* the file downloads/Dataset.csv: absent or its content
    remote,      \* the table served at the fixed URL
    call,        \* what the last call did (arguments, outcome, effects)
    acquired,    \* the cleaned table of the last successful acquisition
    geoFirst     \* the geographic table right after the first choropleth
                 \* that followed the last download_save_data

vars == <<dataframe, geodata, merge_dict, cache, remote, call, acquired, geoFirst>>

-----------------------------------------------------------------------------
(* Bounds *)

MaxRows == 3      \* rows of the remote table
MaxList == 4      \* length of a list argument of predict_tfp

-----------------------------------------------------------------------------
(* Python values that reach the methods as arguments *)

PyNone == [t |-> "NoneType", i |-> 0, s |-> "", l |-> <<>>]
PyInt(n) == [t |-> "int", i |-> n, s |-> "", l |-> <<>>]
PyBool(b) == [t |-> "bool", i |-> IF b THEN 1 ELSE 0, s |-> "", l |-> <<>>]
PyStr(x) == [t |-> "str", i |-> 0, s |-> x, l |-> <<>>]
PyList(items) == [t |-> "list", i |-> 0, s |-> "", l |-> items]

\* a == b of Python for these values: bool is a subclass of int, so True == 1
PyEq(a, b) ==
    IF a.t \in {"int", "bool"} /\ b.t \in {"int", "bool"} THEN a.i = b.i
    ELSE IF a.t = "str" /\ b.t = "str" THEN a.s = b.s
    ELSE IF a.t = "NoneType" /\ b.t = "NoneType" THEN TRUE
    ELSE IF a.t = "list" /\ b.t = "list" THEN a.l = b.l
    ELSE FALSE

SeqsUpTo(S, n) == UNION {[1..k -> S] : k \in 0..n}

-----------------------------------------------------------------------------
(* Tables *)

None == [isNone |-> TRUE, rows |-> <<>>]
Frame(rows) == [isNone |-> FALSE, rows |-> rows]

Absent == [exists |-> FALSE, content |-> <<>>]
File(content) == [exists |-> TRUE, content |-> content]

Row(e, y, q) ==
    [Entity |-> e, Year |-> y, crop_output_quantity |-> q[1],
     animal_output_quantity |-> q[2], fish_output_quantity |-> q[3]]

Years == {2000, 2001}

\* rows of the remote table in a session: a country in two years and the
\* aggregate "World"
SessionRows ==
    {Row("Canada", y, <<1, 2, 1>>) : y \in Years} \cup {Row("World", 2000, <<1, 2, 1>>)}

\* rows for the output comparison: two countries and an aggregate
CountryRows == {Row(e, 2000, <<1, 2, 1>>) : e \in {"Canada", "France", "World"}}

\* rows for the output composition: a year without any output, years with
\* output, two countries sharing a year, and an aggregate
OutputRows ==
    { Row("Canada", 2000, <<0, 0, 0>>), Row("Canada", 2001, <<1, 2, 1>>),
      Row("France", 2000, <<1, 0, 0>>), Row("Asia", 2000, <<1, 2, 1>>) }

\* the tables the fixed URL may serve: at least one row, at most MaxRows
Tables(R) == SeqsUpTo(R, MaxRows) \ {<<>>}

\* gpd.datasets "naturalearth_lowres": an excerpt, one row per country polygon
NaturalEarth ==
    << [name |-> "Canada", geometry |-> 1],
       [name |-> "United States of America", geometry |-> 2],
       [name |-> "Dem. Rep. Congo", geometry |-> 3],
       [name |-> "France", geometry |-> 4],
       [name |-> "eSwatini", geometry |-> 5] >>

Column(rows, col) == [k \in DOMAIN rows |-> rows[k][col]]

Elements(list) == {list[k] : k \in DOMAIN list}

\* Series.unique(): the distinct values in order of first appearance
RECURSIVE Unique(_)
Unique(list) ==
    IF list = <<>> THEN <<>>
    ELSE LET front == Unique(SubSeq(list, 1, Len(list) - 1))
             last == list[Len(list)]
         IN IF last \in Elements(front) THEN front ELSE Append(front, last)

-----------------------------------------------------------------------------
(* download_save_data *)

entities_to_remove ==
    << "Asia", "Caribbean", "Central Africa", "Central America", "Central Asia",
       "Central Europe", "French Guiana", "Developed Asia", "Developed countries",
       "East Africa", "Eastern Europe", "Europe", "High income", "Horn of Africa",
       "Latin America and the Caribbean", "Least developed countries", "Low income",
       "Upper-middle income", "Lower-middle income", "North Africa",
       "North Macedonia", "North America", "Northeast Asia", "Northern Europe",
       "Oceania", "West Africa", "West Asia", "Western Europe", "World", "Pacific",
       "Polynesia", "South Asia", "Southeast Asia", "Southern Africa",
       "Southern Europe", "Sub-Saharan Africa" >>

\* Series.isin(values)
IsIn(x, values) == \E k \in DOMAIN values : values[k] = x

CleanKeepsAggregates(rows) ==
    LET keep(r) == IsIn(r.Entity, entities_to_remove) IN SelectSeq(rows, keep)

\* self.dataframe[~self.dataframe["Entity"].isin(entities_to_remove)]
Clean(rows) ==
    LET keep(r) == ~IsIn(r.Entity, entities_to_remove) IN SelectSeq(rows, keep)

FileNotFoundAlways(file) == TRUE

\* pd.read_csv(file_path) in the try block raises FileNotFoundError
FileNotFound(file) == ~file.exists

\* what requests.get can meet: a 2xx answer, a non-success status, or a
\* connection error / timeout (after 40 s)
Responses == {"ok", "http_error", "net_error"}

\* requests.get(url, timeout=40) raises
GetRaises(resp) == resp = "net_error"

RaiseForStatusNever(resp) == FALSE

\* download.raise_for_status() raises
RaiseForStatus(resp) == resp = "http_error"

\* download.content
Content(resp) == IF resp = "ok" THEN remote ELSE <<>>

NoCall ==
    [op |-> "", exc |-> "", line |-> 0, arg |-> PyNone, flag |-> PyNone,
     resp |-> "", cacheBefore |-> FALSE, dfBefore |-> None, geoBefore |-> None,
     fetches |-> 0, writes |-> 0, readPrimary |-> FALSE, readGeo |-> FALSE,
     rendered |-> FALSE, invalid |-> {}, notices |-> <<>>, valid |-> <<>>,
     result |-> <<>>, table |-> <<>>]

Begin(op, arg, flag) ==
    [NoCall EXCEPT !.op = op, !.arg = arg, !.flag = flag,
                   !.cacheBefore = cache.exists, !.dfBefore = dataframe,
                   !.geoBefore = geodata]

Raise(c, exc, line) == [c EXCEPT !.exc = exc, !.line = line]

DownloadSaveData(resp) ==
    LET c == [Begin("download_save_data", PyNone, PyNone) EXCEPT !.resp = resp]
    IN /\ geodata' = Frame(NaturalEarth)
       /\ geoFirst' = None
       /\ UNCHANGED <<merge_dict, remote>>
       /\ IF ~FileNotFound(cache)
          THEN \* the file is read in the try block and again in the else block
               /\ dataframe' = Frame(Clean(cache.content))
               /\ acquired' = dataframe'
               /\ call' = c
               /\ UNCHANGED cache
          ELSE IF GetRaises(resp)
          THEN /\ call' = Raise([c EXCEPT !.fetches = 1], "RequestException", 92)
               /\ UNCHANGED <<dataframe, acquired, cache>>
          ELSE IF RaiseForStatus(resp)
          THEN /\ call' = Raise([c EXCEPT !.fetches = 1], "HTTPError", 93)
               /\ UNCHANGED <<dataframe, acquired, cache>>
          ELSE /\ cache' = File(Content(resp))
               /\ dataframe' = Frame(Clean(cache'.content))
               /\ acquired' = dataframe'
               /\ call' = [c EXCEPT !.fetches = 1, !.writes = 1]

\* the cache file is removed from outside the program
RemoveCacheFile ==
    /\ cache.exists
    /\ cache' = Absent
    /\ call' = [NoCall EXCEPT !.op = "remove_cache_file"]
    /\ UNCHANGED <<dataframe, geodata, merge_dict, remote, acquired, geoFirst>>

-----------------------------------------------------------------------------
(* countries_list *)

\* self.dataframe["Entity"].unique().tolist()
EntityList(df) == Unique(Column(df.rows, "Entity"))

CountriesList ==
    LET c == Begin("countries_list", PyNone, PyNone)
    IN /\ call' = IF dataframe.isNone
                  THEN Raise([c EXCEPT !.readPrimary = TRUE], "TypeError", 161)
                  ELSE [c EXCEPT !.readPrimary = TRUE, !.result = EntityList(dataframe)]
       /\ UNCHANGED <<dataframe, geodata, merge_dict, cache, remote, acquired, geoFirst>>

-----------------------------------------------------------------------------
(* plot_quantity_correlations *)

PlotQuantityCorrelationsFigureFirst ==
    LET c == [Begin("plot_quantity_correlations", PyNone, PyNone)
                 EXCEPT !.rendered = TRUE, !.readPrimary = TRUE]
    IN /\ call' = IF dataframe.isNone THEN Raise(c, "AttributeError", 169) ELSE c
       /\ UNCHANGED <<dataframe, geodata, merge_dict, cache, remote, acquired, geoFirst>>

PlotQuantityCorrelations ==
    LET c == [Begin("plot_quantity_correlations", PyNone, PyNone)
                 EXCEPT !.readPrimary = TRUE]
    IN /\ call' = IF dataframe.isNone
                  THEN Raise(c, "AttributeError", 169)
                  ELSE [c EXCEPT !.rendered = TRUE]
       /\ UNCHANGED <<dataframe, geodata, merge_dict, cache, remote, acquired, geoFirst>>

-----------------------------------------------------------------------------
(* plot_output_area *)

columns_to_plot ==
    <<"crop_output_quantity", "animal_output_quantity", "fish_output_quantity">>

\* a cell of a derived table: the number num/den; 0/0 is the NaN that a
\* float division of zero by zero yields
Cell(num, den) == [num |-> num, den |-> den]

RECURSIVE Sum(_)
Sum(list) == IF list = <<>> THEN 0 ELSE list[1] + Sum(Tail(list))

RECURSIVE Sorted(_)
Sorted(S) ==
    IF S = {} THEN <<>>
    ELSE LET least == CHOOSE x \in S : \A y \in S : x <= y
         IN <<least>> \o Sorted(S \ {least})

WhereYear(rows, year) == LET keep(r) == r.Year = year IN SelectSeq(rows, keep)

WhereEntity(rows, entity) == LET keep(r) == r.Entity = entity IN SelectSeq(rows, keep)

\* self.dataframe.groupby("Year").sum()[columns_to_plot]
GroupByYearSum(rows) ==
    LET years == Sorted(Elements(Column(rows, "Year")))
    IN [k \in DOMAIN years |->
           [Year |-> years[k],
            values |-> [j \in DOMAIN columns_to_plot |->
                           Sum(Column(WhereYear(rows, years[k]), columns_to_plot[j]))]]]

\* self.dataframe[self.dataframe["Entity"] == entity].set_index("Year")[columns_to_plot]
EntityByYear(rows, entity) ==
    LET own == WhereEntity(rows, entity)
    IN [k \in DOMAIN own |->
           [Year |-> own[k].Year,
            values |-> [j \in DOMAIN columns_to_plot |-> own[k][columns_to_plot[j]]]]]

AsCells(plot) ==
    [k \in DOMAIN plot |->
        [Year |-> plot[k].Year,
         values |-> [j \in DOMAIN plot[k].values |-> Cell(plot[k].values[j], 1)]]]

NormalizeNoScale(plot) ==
    [k \in DOMAIN plot |->
        [Year |-> plot[k].Year,
         values |-> [j \in DOMAIN plot[k].values |->
                        Cell(plot[k].values[j], Sum(plot[k].values))]]]

\* df_plot.div(df_plot.sum(axis=1), axis=0) * 100
Normalize(plot) ==
    [k \in DOMAIN plot |->
        [Year |-> plot[k].Year,
         values |-> [j \in DOMAIN plot[k].values |->
                        Cell(100 * plot[k].values[j], Sum(plot[k].values))]]]

EntityArgs == {PyNone} \cup {PyStr(n) : n \in {"World", "Canada", "Asia", "Atlantis"}}

\* "normalize is True" holds for the object True alone
NormalizeArgs == {PyBool(TRUE), PyBool(FALSE), PyInt(1)}

PlotOutputArea(entity, normalize) ==
    LET c == [Begin("plot_output_area", entity, normalize) EXCEPT !.readPrimary = TRUE]
        world == entity = PyNone \/ PyEq(entity, PyStr("World"))
        df_plot == IF world THEN GroupByYearSum(dataframe.rows)
                   ELSE EntityByYear(dataframe.rows, entity.s)
        shown == IF normalize = PyBool(TRUE) THEN Normalize(df_plot) ELSE AsCells(df_plot)
    IN /\ call' = IF dataframe.isNone
                  THEN IF world THEN Raise(c, "AttributeError", 214)
                       ELSE Raise(c, "TypeError", 217)
                  ELSE IF ~world /\ DOMAIN df_plot = {}
                  THEN Raise(c, "ValueError", 221)
                  ELSE [c EXCEPT !.table = shown, !.rendered = TRUE]
       /\ UNCHANGED <<dataframe, geodata, merge_dict, cache, remote, acquired, geoFirst>>

-----------------------------------------------------------------------------
(* compare_output_for_countries *)

\* isinstance(countries, list) and all(isinstance(country, str) ...)
IsListOfStr(v) == v.t = "list" /\ \A k \in DOMAIN v.l : v.l[k].t = "str"

\* lines 256-261: a string is wrapped, anything but a list of strings raises
TypeCheck(c, countries) ==
    IF countries.t = "str" \/ IsListOfStr(countries) THEN c ELSE Raise(c, "TypeError", 261)

\* the requested names once a string is wrapped in a list
Requested(countries) ==
    IF countries.t = "str" THEN <<countries.s>> ELSE Column(countries.l, "s")

InvalidCountriesAllOrNone(requested, df) ==
    IF Elements(requested) \cap Elements(EntityList(df)) = {}
    THEN Elements(requested)
    ELSE {}

\* set(countries) - set(self.dataframe["Entity"].unique())
InvalidCountries(requested, df) == Elements(requested) \ Elements(EntityList(df))

\* per requested country, in the order of the request: the rows of
\* filtered_data.groupby(["Entity", "Year"])["Total Output"].sum()
TotalOutput(rows, requested) ==
    [k \in DOMAIN requested |->
        [Entity |-> requested[k],
         series |-> LET yearly == GroupByYearSum(WhereEntity(rows, requested[k]))
                    IN [j \in DOMAIN yearly |->
                           [Year |-> yearly[j].Year,
                            Total |-> Sum(yearly[j].values)]]]]

NameArgs == {PyStr(n) : n \in {"Canada", "France", "Atlantis"}}

CountriesArgs ==
    {PyStr(n) : n \in {"Canada", "World", "Atlantis"}}
        \cup {PyList(l) : l \in SeqsUpTo(NameArgs, 2)}
        \cup {PyInt(7), PyNone, PyList(<<PyStr("Canada"), PyInt(7)>>)}

CompareOutputForCountries(countries) ==
    LET c0 == Begin("compare_output_for_countries", countries, PyNone)
        c1 == TypeCheck(c0, countries)
        c2 == [c1 EXCEPT !.readPrimary = TRUE]
        requested == Requested(countries)
        invalid == InvalidCountries(requested, dataframe)
    IN /\ call' = IF c1.exc # "" THEN c1
                  ELSE IF dataframe.isNone THEN Raise(c2, "TypeError", 263)
                  ELSE IF invalid # {}
                  THEN Raise([c2 EXCEPT !.invalid = invalid], "ValueError", 265)
                  ELSE [c2 EXCEPT !.table = TotalOutput(dataframe.rows, requested),
                                  !.rendered = TRUE]
       /\ UNCHANGED <<dataframe, geodata, merge_dict, cache, remote, acquired, geoFirst>>

-----------------------------------------------------------------------------
(* int(year), shared by gapminder and choropleth *)

\* the decimal literals among the strings passed as a year; -1 for a string
\* that int() rejects
ParseInt(s) ==
    CASE s = "2000" -> 2000
      [] s = "2001" -> 2001
      [] s = "1066" -> 1066
      [] OTHER -> -1

\* int(year): the value, or the exception int() raises
IntOf(v) ==
    CASE v.t \in {"int", "bool"} -> [exc |-> "", value |-> v.i]
      [] v.t = "str" -> IF ParseInt(v.s) >= 0
                        THEN [exc |-> "", value |-> ParseInt(v.s)]
                        ELSE [exc |-> "ValueError", value |-> 0]
      [] OTHER -> [exc |-> "TypeError", value |-> 0]

CoerceYearAfterFilter(c, year, tryLine) ==
    LET d == [c EXCEPT !.readPrimary = TRUE]
    IN CASE IntOf(year).exc = "" -> c
         [] IntOf(year).exc = "ValueError" -> Raise(d, "TypeError", tryLine + 3)
         [] OTHER -> Raise(d, "TypeError", tryLine + 1)

\* try: year = int(year) / except ValueError: raise TypeError; a TypeError of
\* int() itself passes through
CoerceYear(c, year, tryLine) ==
    CASE IntOf(year).exc = "" -> c
      [] IntOf(year).exc = "ValueError" -> Raise(c, "TypeError", tryLine + 3)
      [] OTHER -> Raise(c, "TypeError", tryLine + 1)

YearArgs ==
    {PyInt(y) : y \in Years \cup {1066}} \cup {PyStr("2000"), PyStr("abc"), PyNone}

-----------------------------------------------------------------------------
(* gapminder *)

FlagArgs ==
    {PyBool(TRUE), PyBool(FALSE), PyInt(1), PyInt(0), PyInt(2), PyStr("yes"), PyNone}

Gapminder(year, log_scale) ==
    LET c0 == Begin("gapminder", year, log_scale)
        c1 == CoerceYear(c0, year, 320)
        c2 == [c1 EXCEPT !.readPrimary = TRUE]
        filtered_data == WhereYear(dataframe.rows, IntOf(year).value)
    IN /\ call' = IF c1.exc # "" THEN c1
                  ELSE IF dataframe.isNone THEN Raise(c2, "TypeError", 326)
                  ELSE IF PyEq(log_scale, PyBool(TRUE)) \/ PyEq(log_scale, PyBool(FALSE))
                  THEN \* the log columns are assigned on filtered_data, a copy
                       [c2 EXCEPT !.table = filtered_data, !.rendered = TRUE]
                  ELSE Raise(c2, "TypeError", 366)
       /\ UNCHANGED <<dataframe, geodata, merge_dict, cache, remote, acquired, geoFirst>>

-----------------------------------------------------------------------------
(* choropleth *)

MergeDictChained ==
    { <<"Dem. Rep. Congo", "Democratic Republic of Congo">>,
      <<"Bosnia and Herz.", "Bosnia and Herzegovina">>,
      <<"eSwatini", "Eswatini">>,
      <<"Solomon Is.", "Solomon Islands">>,
      <<"Central African Rep.", "Central African Republic">>,
      <<"United States of America", "United States">>,
      <<"United States", "USA">> }

\* the dictionary assigned to self.merge_dict, as its set of items
MergeDict ==
    { <<"Dem. Rep. Congo", "Democratic Republic of Congo">>,
      <<"Bosnia and Herz.", "Bosnia and Herzegovina">>,
      <<"eSwatini", "Eswatini">>,
      <<"Solomon Is.", "Solomon Islands">>,
      <<"Central African Rep.", "Central African Republic">>,
      <<"United States of America", "United States">> }

\* Series.replace(dict) on one value: a value equal to a key becomes that
\* key's value, in one pass
Replace(name, dict) ==
    IF \E item \in dict : item[1] = name
    THEN (CHOOSE item \in dict : item[1] = name)[2]
    ELSE name

\* self.geodata["name"] = self.geodata["name"].replace(self.merge_dict)
ReplaceNames(geo, dict) ==
    [k \in DOMAIN geo |-> [geo[k] EXCEPT !.name = Replace(geo[k].name, dict)]]

\* geodata.merge(dataframe, how="left", left_on="name", right_on="Entity")
\* filtered to Year == year: a boundary row without a productivity row has a
\* null Year and drops out
RECURSIVE MergedForYear(_, _, _)
MergedForYear(geo, rows, year) ==
    IF geo = <<>> THEN <<>>
    ELSE LET matches == WhereYear(WhereEntity(rows, geo[1].name), year)
         IN [k \in DOMAIN matches |-> [geo |-> geo[1], data |-> matches[k]]]
                \o MergedForYear(Tail(geo), rows, year)

Choropleth(year) ==
    LET c0 == Begin("choropleth", year, PyNone)
        c1 == CoerceYear(c0, year, 395)
        c2 == [c1 EXCEPT !.readPrimary = TRUE]
        c3 == [c2 EXCEPT !.readGeo = TRUE]
        renamed == ReplaceNames(geodata.rows, MergeDict)
        ends == c1.exc # "" \/ dataframe.isNone
    IN /\ call' = IF c1.exc # "" THEN c1
                  ELSE IF dataframe.isNone
                  THEN \* the subscript of None raises inside the try block, and
                       \* the bare except turns that into the ValueError
                       Raise(c2, "ValueError", 404)
                  ELSE IF geodata.isNone THEN Raise(c3, "TypeError", 415)
                  ELSE [c3 EXCEPT !.table = MergedForYear(renamed, dataframe.rows,
                                                          IntOf(year).value),
                                  !.rendered = TRUE]
       /\ merge_dict' = IF ends THEN merge_dict ELSE MergeDict
       /\ geodata' = IF ends \/ geodata.isNone THEN geodata ELSE Frame(renamed)
       /\ geoFirst' = IF ends \/ geodata.isNone \/ ~geoFirst.isNone
                      THEN geoFirst ELSE geodata'
       /\ UNCHANGED <<dataframe, cache, remote, acquired>>

-----------------------------------------------------------------------------
(* predict_tfp *)

MaxCountries == 3

ChosenCountriesAll(countries) == countries

\* countries[:3]
ChosenCountries(countries) ==
    SubSeq(countries, 1, IF Len(countries) < MaxCountries THEN Len(countries)
                         ELSE MaxCountries)

\* "country in available_countries", available_countries a list of strings
Available(country, available) == country.t = "str" /\ country.s \in Elements(available)

ForecastArgs ==
    {PyList(l) : l \in SeqsUpTo({PyStr("Canada"), PyStr("Atlantis")}, MaxList)}
        \cup {PyList(<<PyInt(7), PyStr("Canada")>>), PyStr("Canada"), PyNone}

PredictTfp(countries) ==
    LET c0 == Begin("predict_tfp", countries, PyNone)
        c1 == [c0 EXCEPT !.readPrimary = TRUE]
        chosen_countries == ChosenCountries(countries.l)
        available_countries == EntityList(dataframe)
        isValid(country) == Available(country, available_countries)
        isNotValid(country) == ~Available(country, available_countries)
        valid_countries == SelectSeq(chosen_countries, isValid)
        c2 == [c1 EXCEPT !.valid = valid_countries,
                         !.notices = SelectSeq(chosen_countries, isNotValid)]
    IN /\ call' = IF countries.t # "list" THEN Raise(c0, "TypeError", 461)
                  ELSE IF countries.l = <<>>
                  THEN [c0 EXCEPT !.notices = <<PyStr("Please specify at least one country.")>>]
                  ELSE IF dataframe.isNone THEN Raise(c1, "TypeError", 161)
                  ELSE IF valid_countries = <<>> THEN Raise(c2, "ValueError", 483)
                  ELSE [c2 EXCEPT !.rendered = TRUE]
       /\ UNCHANGED <<dataframe, geodata, merge_dict, cache, remote, acquired, geoFirst>>

-----------------------------------------------------------------------------
(* The session *)

\* Analysis.__init__; the cache file, when there is one, is a copy of the
\* remote table that an earlier session stored
InitWith(R) ==
    /\ remote \in Tables(R)
    /\ cache \in {Absent, File(remote)}
    /\ dataframe = None
    /\ geodata = None
    /\ merge_dict = {}
    /\ call = NoCall
    /\ acquired = None
    /\ geoFirst = None

Init == InitWith(SessionRows)

\* every operation of the class, each with arguments of every kind it
\* tells apart
Next ==
    \/ \E resp \in Responses : DownloadSaveData(resp)
    \/ RemoveCacheFile
    \/ CountriesList
    \/ PlotQuantityCorrelations
    \/ \E entity \in {PyNone, PyStr("Canada"), PyStr("Atlantis")},
          normalize \in {PyBool(TRUE), PyBool(FALSE)} : PlotOutputArea(entity, normalize)
    \/ \E countries \in {PyStr("Canada"), PyInt(7),
                         PyList(<<PyStr("Canada"), PyStr("Atlantis")>>)} :
          CompareOutputForCountries(countries)
    \/ \E year \in {PyInt(2000), PyInt(1066), PyStr("abc"), PyNone},
          log_scale \in {PyBool(TRUE), PyInt(1), PyStr("yes")} : Gapminder(year, log_scale)
    \/ \E year \in {PyInt(2000), PyInt(1066), PyStr("abc"), PyNone} : Choropleth(year)
    \/ \E countries \in {PyList(<<>>), PyList(<<PyStr("Atlantis")>>), PyNone,
                         PyList(<<PyStr("Canada"), PyStr("Atlantis")>>)} :
          PredictTfp(countries)

Spec == Init /\ [][Next]_vars

\* the output composition, on tables whose output quantities vary
InitOutput == InitWith(OutputRows)

NextOutput ==
    \/ \E resp \in Responses : DownloadSaveData(resp)
    \/ \E entity \in EntityArgs, normalize \in NormalizeArgs : PlotOutputArea(entity, normalize)

SpecOutput == InitOutput /\ [][NextOutput]_vars

\* the output comparison, on every kind of countries argument
InitCompare == InitWith(CountryRows)

NextCompare ==
    \/ \E resp \in Responses : DownloadSaveData(resp)
    \/ \E countries \in CountriesArgs : CompareOutputForCountries(countries)

SpecCompare == InitCompare /\ [][NextCompare]_vars

\* the two operations that take a year
NextYear ==
    \/ \E resp \in Responses : DownloadSaveData(resp)
    \/ \E year \in YearArgs, log_scale \in FlagArgs : Gapminder(year, log_scale)
    \/ \E year \in YearArgs : Choropleth(year)

SpecYear == Init /\ [][NextYear]_vars

\* the forecast, on lists longer than the three names it uses
NextForecast ==
    \/ \E resp \in Responses : DownloadSaveData(resp)
    \/ \E countries \in ForecastArgs : PredictTfp(countries)

SpecForecast == Init /\ [][NextForecast]_vars

-----------------------------------------------------------------------------
(* Properties *)

Downloaded == call.op = "download_save_data"

NoDuplicates(list) ==
    \A j, k \in DOMAIN list : j # k => list[j] # list[k]

AggregateLabels == Elements(entities_to_remove)

\* C1: once download_save_data has succeeded, whatever is called afterwards,
\* no row of the primary table carries an aggregate label as its Entity, and
\* countries_list returns a list without duplicates and without such a label.
C1_NoAggregateEntity ==
    ~dataframe.isNone =>
        /\ \A k \in DOMAIN dataframe.rows : dataframe.rows[k].Entity \notin AggregateLabels
        /\ call.op = "countries_list" =>
              /\ call.exc = ""
              /\ NoDuplicates(call.result)
              /\ Elements(call.result) \cap AggregateLabels = {}
              /\ Elements(call.result) = Elements(Column(dataframe.rows, "Entity"))

\* countries_list has returned one name for a cleaned table of two rows,
\* while the raw file in the cache holds a "World" row as well
C1_Witness ==
    /\ call.op = "countries_list"
    /\ call.result = <<"Canada">>
    /\ Len(dataframe.rows) = 2
    /\ \E k \in DOMAIN cache.content : cache.content[k].Entity = "World"

\* C2 as stated: one fetch and one write of the cache file in every call that
\* starts without it, neither in a call that starts with it.
C2_OneFetchOneWrite ==
    Downloaded =>
        IF call.cacheBefore
        THEN call.fetches = 0 /\ call.writes = 0
        ELSE call.fetches = 1 /\ call.writes = 1

\* C2, amended: a call that starts with the cache file fetches nothing and
\* writes nothing; a call that starts without it fetches exactly once, and
\* writes the file exactly once if that fetch succeeds and not at all if it
\* fails; a call that succeeds leaves the file in place.
C2_FetchOnlyWithoutCache ==
    Downloaded =>
        /\ IF call.cacheBefore
           THEN call.fetches = 0 /\ call.writes = 0
           ELSE call.fetches = 1 /\ call.writes = (IF call.resp = "ok" THEN 1 ELSE 0)
        /\ (call.cacheBefore \/ call.resp = "ok") <=> call.exc = ""
        /\ call.exc = "" => cache.exists /\ ~dataframe.isNone

\* a later acquisition, after the cache file was removed, fetches and writes
C2_Witness ==
    /\ Downloaded
    /\ ~call.dfBefore.isNone
    /\ ~call.cacheBefore
    /\ call.fetches = 1
    /\ call.writes = 1
    /\ cache = File(remote)

\* C3: without the cache file, a failed fetch makes download_save_data raise
\* after that one attempt, no cache file appears and the primary table is the
\* one from before the call; any call without the cache file fetches (again).
C3_FailedFetchRaises ==
    (Downloaded /\ ~call.cacheBefore) =>
        /\ call.fetches = 1
        /\ call.resp # "ok" =>
              /\ call.exc \in {"RequestException", "HTTPError"}
              /\ call.writes = 0
              /\ ~cache.exists
              /\ dataframe = call.dfBefore

\* a non-success status met by a session that already holds a table
C3_Witness ==
    /\ Downloaded
    /\ ~call.cacheBefore
    /\ call.resp = "http_error"
    /\ call.exc = "HTTPError"
    /\ ~dataframe.isNone
    /\ ~cache.exists

\* the Entity values of the primary table
EntitySet == {dataframe.rows[k].Entity : k \in DOMAIN dataframe.rows}

\* the name at position k of the list passed to predict_tfp is an entity
ValidAt(k) == call.arg.l[k].t = "str" /\ call.arg.l[k].s \in EntitySet

\* predict_tfp was called with a non-empty list, on a loaded table
Forecast ==
    /\ call.op = "predict_tfp"
    /\ call.arg.t = "list"
    /\ call.arg.l # <<>>
    /\ ~dataframe.isNone

\* C4 as stated: called with a non-empty list of any length, predict_tfp
\* raises the ValueError only if no supplied name is an entity; with a valid
\* name at any position it raises nothing.
C4_AnyValidName ==
    Forecast =>
        /\ call.exc = "ValueError" => \A k \in DOMAIN call.arg.l : ~ValidAt(k)
        /\ (\E k \in DOMAIN call.arg.l : ValidAt(k)) => call.exc = ""

\* C4, amended: predict_tfp looks at the first three names only. It raises
\* the ValueError exactly when none of the first three is an entity;
\* otherwise it raises nothing, goes on with the valid ones among the first
\* three and reports the others among the first three.
C4_FirstThreeNames ==
    Forecast =>
        LET first == {k \in DOMAIN call.arg.l : k <= MaxCountries}
        IN /\ call.exc = "ValueError" <=> \A k \in first : ~ValidAt(k)
           /\ call.exc \in {"", "ValueError"}
           /\ call.exc = "" =>
                 /\ call.rendered
                 /\ Elements(call.valid) = {call.arg.l[k] : k \in {j \in first : ValidAt(j)}}
                 /\ Elements(call.notices) = {call.arg.l[k] : k \in {j \in first : ~ValidAt(j)}}

\* four names, the first three a mix of entities and unknown names
C4_Witness ==
    /\ Forecast
    /\ Len(call.arg.l) = 4
    /\ call.exc = ""
    /\ call.valid # <<>>
    /\ call.notices # <<>>

\* C5: on a loaded table, choropleth with an integer-coercible year raises the
\* ValueError and renders nothing when no row has that year, and raises no
\* ValueError when some row has it.
C5_AbsentYearRaises ==
    (call.op = "choropleth" /\ ~call.dfBefore.isNone /\ IntOf(call.arg).exc = "") =>
        IF \E k \in DOMAIN dataframe.rows : dataframe.rows[k].Year = IntOf(call.arg).value
        THEN call.exc # "ValueError"
        ELSE call.exc = "ValueError" /\ ~call.rendered

\* the names asked of compare_output_for_countries
RequestedNames ==
    IF call.arg.t = "str" THEN {call.arg.s} ELSE {call.arg.l[k].s : k \in DOMAIN call.arg.l}

\* C6: called with a string or a list of strings on a loaded table,
\* compare_output_for_countries raises the ValueError exactly when a requested
\* name is no entity; the error carries exactly the requested names that are
\* no entity, and nothing is plotted.
C6_UnknownCountries ==
    (/\ call.op = "compare_output_for_countries"
     /\ call.arg.t = "str" \/ IsListOfStr(call.arg)
     /\ ~dataframe.isNone) =>
        /\ call.exc = "ValueError" <=> RequestedNames \ EntitySet # {}
        /\ call.exc \in {"", "ValueError"}
        /\ call.exc = "ValueError" =>
              call.invalid = RequestedNames \ EntitySet /\ ~call.rendered
        /\ call.exc = "" => call.rendered

\* a list of a known and an unknown country, on a table with another country
C6_Witness ==
    /\ call.op = "compare_output_for_countries"
    /\ call.arg = PyList(<<PyStr("Canada"), PyStr("Atlantis")>>)
    /\ EntitySet = {"Canada", "France"}
    /\ call.exc = "ValueError"
    /\ call.invalid = {"Atlantis"}

\* the log-scale flag is one of the objects True and False
IsBoolean(v) == v.t = "bool"

\* C7: gapminder with an integer-coercible year raises a TypeError and
\* renders nothing whenever the log-scale flag is not True or False.
C7_NonBooleanFlagRaises ==
    (call.op = "gapminder" /\ IntOf(call.arg).exc = "" /\ ~IsBoolean(call.flag)) =>
        call.exc = "TypeError" /\ ~call.rendered

\* the argument of the call has a type the operation rejects
BadCountries ==
    call.op = "compare_output_for_countries" /\ ~(call.arg.t = "str" \/ IsListOfStr(call.arg))

BadYear == call.op \in {"gapminder", "choropleth"} /\ IntOf(call.arg).exc # ""

BadForecastInput == call.op = "predict_tfp" /\ call.arg.t # "list"

\* the flag equals neither True nor False, so gapminder rejects it
BadFlag ==
    /\ call.op = "gapminder"
    /\ IntOf(call.arg).exc = ""
    /\ ~PyEq(call.flag, PyBool(TRUE))
    /\ ~PyEq(call.flag, PyBool(FALSE))

\* gapminder has raised its type error for the flag
FlagError == call.op = "gapminder" /\ call.exc = "TypeError" /\ call.line = 366

\* C8 as stated: each input type error of the four operations is raised
\* before the primary or the geographic table is read.
C8_TypeErrorBeforeAnyRead ==
    /\ (BadCountries \/ BadYear \/ BadForecastInput) =>
          call.exc = "TypeError" /\ ~call.readPrimary /\ ~call.readGeo
    /\ FlagError => ~call.readPrimary /\ ~call.readGeo

\* C8, amended: the type errors for the countries argument, the year and the
\* forecast input are raised before either table is read; the type error for
\* a rejected log-scale flag is raised after gapminder has filtered the
\* primary table by year, without a read of the geographic table and before
\* anything is rendered.
C8_TypeErrorOrder ==
    /\ (BadCountries \/ BadYear \/ BadForecastInput) =>
          call.exc = "TypeError" /\ ~call.readPrimary /\ ~call.readGeo /\ ~call.rendered
    /\ (BadFlag /\ ~call.dfBefore.isNone) => FlagError
    /\ FlagError =>
          BadFlag /\ call.readPrimary /\ ~call.readGeo /\ ~call.rendered

\* a string as the flag, passed to gapminder on a loaded table
C8_Witness ==
    /\ FlagError
    /\ call.flag = PyStr("yes")
    /\ call.arg = PyInt(2000)
    /\ dataframe.rows # <<>>

Queries ==
    {"countries_list", "plot_quantity_correlations", "plot_output_area",
     "compare_output_for_countries", "gapminder", "choropleth", "predict_tfp"}

\* C9: after a successful acquisition the primary table stays the cleaned
\* table of that acquisition under every query; no query but choropleth
\* changes the geographic table; choropleth changes names only, and after the
\* first choropleth every later one leaves the table as it is.
C9_TablesKept ==
    /\ ~dataframe.isNone => dataframe = acquired
    /\ call.op \in Queries => dataframe = call.dfBefore
    /\ call.op \in Queries \ {"choropleth"} => geodata = call.geoBefore
    /\ (call.op = "choropleth" /\ ~geodata.isNone) =>
          /\ ~call.geoBefore.isNone
          /\ Column(geodata.rows, "geometry") = Column(call.geoBefore.rows, "geometry")
    /\ ~geoFirst.isNone => geodata = geoFirst

\* a second choropleth, on names the first one has already replaced
C9_Witness ==
    /\ call.op = "choropleth"
    /\ call.exc = ""
    /\ call.geoBefore = geoFirst
    /\ geodata # Frame(NaturalEarth)
    /\ dataframe.rows # <<>>

\* plot_output_area has drawn the normalized composition
Normalized ==
    /\ call.op = "plot_output_area"
    /\ call.flag = PyBool(TRUE)
    /\ call.exc = ""

RowTotal(r) == r.values[1].num + r.values[2].num + r.values[3].num

\* C10 as stated: with normalize=True, for the world and for every entity
\* with rows, the three values of every year sum to 100, also in a year
\* whose three raw values sum to zero.
C10_SharesSumTo100 ==
    Normalized =>
        \A k \in DOMAIN call.table :
            /\ \A j \in 1..3 : call.table[k].values[j].den # 0
            /\ RowTotal(call.table[k]) = 100 * call.table[k].values[1].den

RawTotal(r) == r.crop_output_quantity + r.animal_output_quantity + r.fish_output_quantity

\* the rows the composition is drawn from
Composed ==
    IF call.arg = PyNone \/ call.arg = PyStr("World")
    THEN dataframe.rows
    ELSE WhereEntity(dataframe.rows, call.arg.s)

\* C10, amended: with normalize=True the table has the years of the entity's
\* rows (of all rows for the world); in every year whose raw values do not
\* sum to zero the three values sum to 100; in a year whose raw values sum
\* to zero the three values are 0/0, not numbers.
C10_SharesOfNonZeroYears ==
    Normalized =>
        /\ {call.table[k].Year : k \in DOMAIN call.table}
              = {Composed[k].Year : k \in DOMAIN Composed}
        /\ \A k \in DOMAIN call.table :
              LET r == call.table[k]
                  ofYear == WhereYear(Composed, r.Year)
                  raw == IF call.arg = PyNone \/ call.arg = PyStr("World")
                         THEN Sum([j \in DOMAIN ofYear |-> RawTotal(ofYear[j])])
                         ELSE RawTotal(Composed[k])
              IN /\ \A j \in 1..3 : r.values[j].den = raw
                 /\ IF raw = 0
                    THEN \A j \in 1..3 : r.values[j].num = 0
                    ELSE RowTotal(r) = 100 * raw

\* the world's composition over a year without output and a year with output
C10_Witness ==
    /\ Normalized
    /\ call.arg = PyNone
    /\ \E k \in DOMAIN call.table : call.table[k].values[1].den = 0
    /\ \E k \in DOMAIN call.table : call.table[k].values[1].den = 4

Plots ==
    {"plot_quantity_correlations", "plot_output_area", "compare_output_for_countries",
     "gapminder", "choropleth", "predict_tfp"}

\* C11: while the primary table is unset (no acquisition yet, or failed ones
\* only), a call of any of the six plotting operations reaches no rendering
\* call: it raises, or, for predict_tfp with an empty list, prints its notice
\* and returns.
C11_NoPlotBeforeAcquisition ==
    (call.op \in Plots /\ call.dfBefore.isNone) =>
        /\ ~call.rendered
        /\ dataframe.isNone
        /\ call.exc = "" => (call.op = "predict_tfp" /\ call.arg = PyList(<<>>))

\* gapminder with a valid year and flag, after an acquisition that failed:
\* the geographic table is loaded, the primary table is not
C11_Witness ==
    /\ call.op = "gapminder"
    /\ call.arg = PyInt(2000)
    /\ call.flag = PyBool(TRUE)
    /\ call.exc = "TypeError"
    /\ call.line = 326
    /\ dataframe.isNone
    /\ ~geodata.isNone

====
